---- MODULE Spec2Model ----
(***************************************************************************)
(* Model of the module that generate_counter!($name, $type) expands to     *)
(* (src/src/lib.rs): a thread_local Cell<$type> initialised to 0 and the   *)
(* three functions next(), set(n) and reset() over it.                     *)
(*                                                                         *)
(* The program state is the thread-local COUNTER slot of every thread.     *)
(* `base` and `rets` are history variables: the last write a thread made   *)
(* to its cell and the outcomes of its next() calls since that write.      *)
(* COUNTER2 is the COUNTER of a second expansion of the macro (the tests      *)
(* expand it once per test function); only SpecTwo uses it.  `pending` is  *)
(* the call a thread has made and not yet finished; only SpecLive, which   *)
(* takes a call and its completion as two steps, uses it.                  *)
(***************************************************************************)
EXTENDS Integers, Sequences, FiniteSets

\* Width in bits of the modelled $type (i8/u8 scaled down).
Bits == 3
\* The threads that use the generated counter: thread A and thread B.
Threads == {"A", "B"}

\* Longest run of next() calls a thread makes without a set()/reset():
\* long enough for a fresh counter to run through the whole type and wrap.
MaxRun == 2^Bits + 2

VARIABLES ty, overflow_checks, COUNTER, base, rets, exited, COUNTER2, pending

vars == <<ty, overflow_checks, COUNTER, base, rets, exited, COUNTER2, pending>>

\* $type: a signed or an unsigned primitive integer type of Bits bits.
Types == {"signed", "unsigned"}

MinVal(T) == IF T = "signed" THEN -(2^(Bits-1)) ELSE 0
MaxVal(T) == IF T = "signed" THEN 2^(Bits-1) - 1 ELSE 2^Bits - 1
Values(T) == MinVal(T)..MaxVal(T)

\* The arguments set(n) is called with: the ends of the type, the values
\* next to them and the values around zero.
SetInputs(T) == {MinVal(T), -1, 0, 1, MaxVal(T) - 1, MaxVal(T)} \cap Values(T)

\* Two's-complement reduction of a mathematical integer into $type.
wrapping(T, x) == ((x - MinVal(T)) % (2^Bits)) + MinVal(T)

\* The thread_local slot of a thread that has not accessed it yet; an
\* initialised slot holding v is <<v>>.
Uninit == <<>>

\* Cell::new(0): the initialiser of the thread_local.
Cell_new == 0

\* Mutant: COUNTER declared as a plain static, so that a thread's first
\* access reads what another thread stored.
with_get_static(c, t) ==
    IF c[t] # <<>> THEN c[t][1]
    ELSE IF \E u \in DOMAIN c : c[u] # <<>>
         THEN c[CHOOSE u \in DOMAIN c : c[u] # <<>>][1]
         ELSE 0

\* COUNTER.with(|cell| cell.get()): the slot is initialised lazily, on the
\* thread's first access, and then read.
with_get(c, t) == IF c[t] = Uninit THEN Cell_new ELSE c[t][1]

\* Mutant: COUNTER declared as a plain static, one cell for all threads.
with_set_static(c, t, v) == [u \in DOMAIN c |-> <<v>>]

\* COUNTER.with(|cell| cell.set(v)): only the calling thread's slot changes.
with_set(c, t, v) == [c EXCEPT ![t] = <<v>>]

\* Mutant: the increment is forgotten (cell.set(n)).
add_none(T, oc, n) == [panic |-> FALSE, val |-> n]

\* n + 1 on $type.  With overflow checks compiled in (debug profile, the one
\* cargo test uses) an overflowing addition panics; without them (release
\* profile) it wraps.
add_one(T, oc, n) ==
    IF n + 1 > MaxVal(T)
    THEN IF oc THEN [panic |-> TRUE, val |-> n]
               ELSE [panic |-> FALSE, val |-> wrapping(T, n + 1)]
    ELSE [panic |-> FALSE, val |-> n + 1]

\* Mutant: next() evaluates to the incremented value.
next_ret_incremented(n, sum) == sum

\* The value next() evaluates to: n, the value read before the increment.
next_ret(n, sum) == n

\* Outcome of one call of next(): a returned value, or a panic.
Ret(v) == [ok |-> TRUE, val |-> v]
Panicked == [ok |-> FALSE, val |-> 0]

\* The last write to a thread's cell: the lazy initialisation ("init"), a
\* set(n) or a reset(), with the value it stored.  `twice` marks a reset()
\* that immediately followed another reset() of the same thread.
Write(k, v) == [kind |-> k, val |-> v, twice |-> FALSE]
JustReset(t) == base[t].kind = "reset" /\ rets[t] = <<>>

Init ==
    /\ ty \in Types
    /\ overflow_checks \in BOOLEAN
    /\ COUNTER = [t \in Threads |-> Uninit]
    /\ base = [t \in Threads |-> Write("init", Cell_new)]
    /\ rets = [t \in Threads |-> <<>>]
    /\ exited = FALSE
    /\ COUNTER2 = [t \in Threads |-> Uninit]
    /\ pending = [t \in Threads |-> "none"]

\* pub fn next() -> $type
next(t) ==
    /\ Len(rets[t]) < MaxRun
    /\ LET n == with_get(COUNTER, t)
           sum == add_one(ty, overflow_checks, n)
       IN IF sum.panic
          THEN \* the panic unwinds out of the closure before cell.set
               /\ COUNTER' = with_set(COUNTER, t, n)
               /\ rets' = [rets EXCEPT ![t] = Append(@, Panicked)]
          ELSE /\ COUNTER' = with_set(COUNTER, t, sum.val)
               /\ rets' = [rets EXCEPT ![t] = Append(@, Ret(next_ret(n, sum.val)))]
    /\ UNCHANGED <<ty, overflow_checks, base, exited>>

\* Mutant: set(n) ignores its argument (the cell keeps its value).
set_cells_ignored(c, t, n) == with_set(c, t, with_get(c, t))

\* The cell contents after set(n).
set_cells(c, t, n) == with_set(c, t, n)

\* pub fn set(n: $type)
set(t, n) ==
    /\ COUNTER' = set_cells(COUNTER, t, n)
    /\ base' = [base EXCEPT ![t] = Write("set", n)]
    /\ rets' = [rets EXCEPT ![t] = <<>>]
    /\ UNCHANGED <<ty, overflow_checks, exited>>

\* Mutant: reset() stores nothing (the cell keeps its value).
reset_cells_keep(c, t) == with_set(c, t, with_get(c, t))

\* Mutant: reset() has the body of next() (stores the wrapped n + 1).
reset_cells_advance(c, t) == with_set(c, t, wrapping(ty, with_get(c, t) + 1))

\* The cell contents after reset().
reset_cells(c, t) == with_set(c, t, 0)

\* pub fn reset()
reset(t) ==
    /\ COUNTER' = reset_cells(COUNTER, t)
    /\ base' = [base EXCEPT ![t] = [kind |-> "reset",
                                    val |-> with_get(COUNTER', t),
                                    twice |-> JustReset(t)]]
    /\ rets' = [rets EXCEPT ![t] = <<>>]
    /\ UNCHANGED <<ty, overflow_checks, exited>>

\* The thread terminates: its thread_local is dropped.  The slot is then
\* that of a new thread, which has not touched the counter.
Exit(t) ==
    /\ COUNTER[t] # Uninit
    /\ COUNTER' = [COUNTER EXCEPT ![t] = Uninit]
    /\ base' = [base EXCEPT ![t] = Write("init", Cell_new)]
    /\ rets' = [rets EXCEPT ![t] = <<>>]
    /\ exited' = TRUE
    /\ UNCHANGED <<ty, overflow_checks>>

\* One generated counter, used by every thread.
Next ==
    \/ \E t \in Threads : next(t) /\ UNCHANGED <<COUNTER2, pending>>
    \/ \E t \in Threads : \E n \in SetInputs(ty) :
          set(t, n) /\ UNCHANGED <<COUNTER2, pending>>
    \/ \E t \in Threads : reset(t) /\ UNCHANGED <<COUNTER2, pending>>
    \/ \E t \in Threads : Exit(t) /\ UNCHANGED <<COUNTER2, pending>>

Spec == Init /\ [][Next]_vars

(***************************************************************************)
(* Two expansions of the macro.  Each expansion is a module of its own     *)
(* with a thread_local COUNTER of its own: the variable COUNTER is the one *)
(* of test_basic::Counter, COUNTER2 the one of test_reset::Counter.           *)
(***************************************************************************)
Basic == "test_basic::Counter"
Reset == "test_reset::Counter"
Names == {Basic, Reset}

\* The thread_locals of the two modules.
Statics == [name \in Names |-> IF name = Basic THEN COUNTER ELSE COUNTER2]

\* Mutant: the thread_local is declared outside of `pub mod $name`, one for
\* all the expansions.
in_module_set_shared(S, name, t, v) == [m \in DOMAIN S |-> with_set(S[m], t, v)]

\* COUNTER.with(|cell| cell.set(v)) inside `pub mod $name`: COUNTER names
\* the thread_local of that module.
in_module_set(S, name, t, v) == [S EXCEPT ![name] = with_set(S[name], t, v)]

\* A function of test_basic::Counter has stored a value on thread t: what
\* that leaves in the thread_local of test_reset::Counter.
InBasic(t) ==
    COUNTER2' = in_module_set(Statics, Basic, t, with_get(COUNTER', t))[Reset]

\* A function of test_reset::Counter stores v on thread t.
OtherStores(t, v) ==
    LET S == in_module_set(Statics, Reset, t, v)
    IN /\ UNCHANGED <<ty, overflow_checks, base, rets, exited, pending>>
       /\ COUNTER' = S[Basic]
       /\ COUNTER2' = S[Reset]

\* test_reset::Counter::next()
other_next(t) ==
    LET n == with_get(COUNTER2, t)
        sum == add_one(ty, overflow_checks, n)
    IN OtherStores(t, IF sum.panic THEN n ELSE sum.val)

\* test_reset::Counter::set(n)
other_set(t, n) == OtherStores(t, n)

\* test_reset::Counter::reset()
other_reset(t) == OtherStores(t, 0)

\* The thread terminates: the thread_locals of both modules are dropped.
ExitTwo(t) ==
    /\ COUNTER[t] # Uninit \/ COUNTER2[t] # Uninit
    /\ COUNTER' = [COUNTER EXCEPT ![t] = Uninit]
    /\ COUNTER2' = [COUNTER2 EXCEPT ![t] = Uninit]
    /\ base' = [base EXCEPT ![t] = Write("init", Cell_new)]
    /\ rets' = [rets EXCEPT ![t] = <<>>]
    /\ exited' = TRUE
    /\ UNCHANGED <<ty, overflow_checks, pending>>

\* The threads that use both counters; the other threads use
\* test_reset::Counter only.
BothUsers == {"A"}

NextTwo ==
    \/ \E t \in BothUsers : next(t) /\ InBasic(t) /\ UNCHANGED pending
    \/ \E t \in BothUsers : \E n \in SetInputs(ty) :
          set(t, n) /\ InBasic(t) /\ UNCHANGED pending
    \/ \E t \in BothUsers : reset(t) /\ InBasic(t) /\ UNCHANGED pending
    \/ \E t \in Threads : other_next(t)
    \/ \E t \in Threads : \E n \in SetInputs(ty) : other_set(t, n)
    \/ \E t \in Threads : other_reset(t)
    \/ \E t \in Threads : ExitTwo(t)

SpecTwo == Init /\ [][NextTwo]_vars

(***************************************************************************)
(* Calls and their completion as separate steps.  A thread calls next(),   *)
(* set(n) or reset() and, when it is next scheduled, runs the body of the  *)
(* function to its end (a return, or the panic of next()).  The argument   *)
(* of set is on the caller's stack; it is drawn when the body runs.        *)
(***************************************************************************)

\* Longest run of next() calls without a set()/reset() in SpecLive.
LiveRun == 2

\* Mutant: COUNTER is a static behind a lock that a thread holds from its
\* call to its return, so that a thread waits while another is in a call.
can_run_locked(p, t) == \A u \in DOMAIN p \ {t} : p[u] = "none"

\* COUNTER.with(|cell| ...) on a thread_local Cell: the closure runs at
\* once, on the calling thread's own cell; there is no lock to wait for and
\* no loop.
can_run(p, t) == TRUE

\* Thread t calls a function of the generated module.
Call(t, f) ==
    /\ pending[t] = "none"
    /\ f = "next" => Len(rets[t]) < LiveRun
    /\ pending' = [pending EXCEPT ![t] = f]
    /\ UNCHANGED <<ty, overflow_checks, COUNTER, base, rets, exited, COUNTER2>>

\* The body of the function thread t has called runs to its end.
Finish(t) ==
    /\ pending[t] # "none"
    /\ can_run(pending, t)
    /\ \/ pending[t] = "next" /\ next(t)
       \/ pending[t] = "set" /\ \E n \in SetInputs(ty) : set(t, n)
       \/ pending[t] = "reset" /\ reset(t)
    /\ pending' = [pending EXCEPT ![t] = "none"]
    /\ UNCHANGED COUNTER2

\* A thread that is not inside a call terminates.
ExitLive(t) ==
    /\ pending[t] = "none"
    /\ Exit(t)
    /\ UNCHANGED <<COUNTER2, pending>>

NextLive ==
    \/ \E t \in Threads : \E f \in {"next", "set", "reset"} : Call(t, f)
    \/ \E t \in Threads : Finish(t)
    \/ \E t \in Threads : ExitLive(t)

\* Thread A keeps being scheduled while it is inside a call; nothing is
\* assumed of thread B, which may stop for ever at any point, also inside
\* a call.
SpecLive == Init /\ [][NextLive]_vars /\ WF_vars(Finish("A"))

TypeOK ==
    /\ ty \in Types
    /\ overflow_checks \in BOOLEAN
    /\ \A t \in Threads :
          /\ COUNTER[t] = Uninit \/ (Len(COUNTER[t]) = 1 /\ COUNTER[t][1] \in Values(ty))
          /\ COUNTER2[t] = Uninit \/ (Len(COUNTER2[t]) = 1 /\ COUNTER2[t][1] \in Values(ty))
          /\ Len(rets[t]) <= MaxRun
          /\ pending[t] \in {"none", "next", "set", "reset"}

(***************************************************************************)
(* Helpers of the properties.                                              *)
(***************************************************************************)

\* Some operation of thread t.
Op(t) == next(t) \/ (\E n \in SetInputs(ty) : set(t, n)) \/ reset(t)

\* The outcome of the call of next() that a next(t) step has just made.
LastRet(t) == rets'[t][Len(rets'[t])]

\* The stored value of thread t, which has accessed its counter.
Stored(t) == COUNTER[t][1]

\* A thread running alone: the stored value and the outcomes of k calls of
\* next() made one after the other from the stored value v.
RECURSIVE Alone(_, _)
Alone(v, k) ==
    IF k = 0 THEN [cell |-> v, outs |-> <<>>]
    ELSE LET before == Alone(v, k - 1)
             n == before.cell
             sum == add_one(ty, overflow_checks, n)
         IN IF sum.panic
            THEN [cell |-> n, outs |-> Append(before.outs, Panicked)]
            ELSE [cell |-> sum.val, outs |-> Append(before.outs, Ret(next_ret(n, sum.val)))]

\* Up to its j-th call of next() since the last write, thread t was never
\* called with the stored value already past the maximum of the type.
NotPassed(t, j) ==
    \A k \in 1..j : rets[t][k].ok /\ (k < j => rets[t][k].val # MaxVal(ty))

(***************************************************************************)
(* Properties.                                                             *)
(***************************************************************************)

\* C1: on a thread that has done nothing but call next() since its counter
\* was created, the i-th call returns i - 1, for every i up to the maximum
\* value of the type.
C1_FreshSequence ==
    \A t \in Threads :
        base[t].kind = "init" =>
            \A i \in 1..Len(rets[t]) : i <= MaxVal(ty) => rets[t][i] = Ret(i - 1)

\* A fresh thread has called next() as many times as the maximum of an
\* unsigned type.
C1_Witness ==
    \E t \in Threads :
        /\ ty = "unsigned"
        /\ base[t].kind = "init"
        /\ Len(rets[t]) = MaxVal(ty)
        /\ rets[t][MaxVal(ty)] = Ret(MaxVal(ty) - 1)

\* C2: a thread's stored value and the values its next() calls returned are
\* those of the thread running alone from its own last write, whatever the
\* other thread did in between; and no operation of one thread changes the
\* stored value or the returned values of another.
C2_OwnHistory ==
    \A t \in Threads :
        LET alone == Alone(base[t].val, Len(rets[t]))
        IN /\ rets[t] = alone.outs
           /\ with_get(COUNTER, t) = alone.cell
C2_Frame ==
    \A t \in Threads :
        Op(t) => \A u \in Threads \ {t} :
                    COUNTER'[u] = COUNTER[u] /\ rets'[u] = rets[u] /\ base'[u] = base[u]
C2_ThreadIsolation == []C2_OwnHistory /\ [][C2_Frame]_vars

\* Both threads have advanced their counters, to different values.
C2_Witness ==
    /\ \A t \in Threads : COUNTER[t] # Uninit /\ Len(rets[t]) >= 2
    /\ \E t, u \in Threads : Stored(t) # Stored(u) /\ base[t].kind = "set"
                                                  /\ base[u].kind = "init"

\* C3: after set(n), the first next() of the thread returns n and the second
\* returns n + 1, wrapped into the type when n is its maximum.
C3_SetThenNext ==
    \A t \in Threads :
        base[t].kind = "set" =>
            /\ Len(rets[t]) >= 1 => rets[t][1] = Ret(base[t].val)
            /\ Len(rets[t]) >= 2 => rets[t][2] = Ret(wrapping(ty, base[t].val + 1))

\* C4: after reset() the stored value of the thread is zero, and the next
\* call of next() on the thread returns 0.
C4_ResetThenNext ==
    \A t \in Threads :
        base[t].kind = "reset" =>
            /\ rets[t] = <<>> => COUNTER[t] = <<0>>
            /\ Len(rets[t]) >= 1 => rets[t][1] = Ret(0)

\* A thread has called next() after a reset().
C4_Witness ==
    \E t \in Threads : base[t].kind = "reset" /\ Len(rets[t]) >= 1 /\ Stored(t) = 1

\* C5: called with the maximum of the type stored, next() returns that
\* maximum and stores the minimum of the type.
C5_OverflowWraps ==
    [][\A t \in Threads :
          (next(t) /\ with_get(COUNTER, t) = MaxVal(ty)) =>
              (LastRet(t) = Ret(MaxVal(ty)) /\ COUNTER'[t] = <<MinVal(ty)>>)]_vars

\* C6: no call of next() panics.
C6_NoPanic ==
    \A t \in Threads : \A i \in 1..Len(rets[t]) : rets[t][i].ok

\* C7: in a run of next() calls of one thread with no set()/reset() in
\* between, as long as the stored value has not passed the maximum of the
\* type, each call returns one more than the call before it, and the
\* values returned are pairwise distinct.
C7_SequentialIds ==
    \A t \in Threads : \A j \in 1..Len(rets[t]) :
        NotPassed(t, j) =>
            /\ j > 1 => rets[t][j].val = rets[t][j - 1].val + 1
            /\ \A i \in 1..(j - 1) : rets[t][i].val # rets[t][j].val

\* A thread has drawn three identifiers after a set(n), the last one the
\* maximum of the type.
C7_Witness ==
    \E t \in Threads :
        /\ base[t].kind = "set"
        /\ Len(rets[t]) = 3
        /\ NotPassed(t, 3)
        /\ rets[t][3].val = MaxVal(ty)

\* C8: a reset() that immediately follows a reset() of the same thread
\* changes no thread's stored value.
C8_ResetIdempotent ==
    [][\A t \in Threads : (JustReset(t) /\ reset(t)) => COUNTER' = COUNTER]_vars

\* A thread has called reset() twice in a row while the other thread holds
\* a value that is not zero.
C8_Witness ==
    \E t \in Threads :
        /\ JustReset(t) /\ base[t].twice
        /\ \E u \in Threads \ {t} : COUNTER[u] # Uninit /\ Stored(u) # 0

\* C9: next() returns the value v it finds stored and stores v + 1 on the
\* type, in every state.
C9_NextReadsThenIncrements ==
    [][\A t \in Threads :
          next(t) =>
              LET v == with_get(COUNTER, t)
              IN LastRet(t) = Ret(v) /\ COUNTER'[t] = <<wrapping(ty, v + 1)>>]_vars

\* C10: a thread has no cell until its first operation, and that operation
\* finds zero: the first next() of a thread that has made no other
\* operation returns 0, whatever other threads, living or terminated, did.
C10_LazyZero ==
    \A t \in Threads :
        base[t].kind = "init" =>
            /\ with_get(COUNTER, t) = Alone(0, Len(rets[t])).cell
            /\ rets[t] = <<>> <=> COUNTER[t] = Uninit
            /\ Len(rets[t]) >= 1 => rets[t][1] = Ret(0)

\* A thread makes its first next() after a thread has terminated and while
\* the other thread holds a value that is not zero.
C10_Witness ==
    \E t \in Threads :
        /\ exited
        /\ base[t].kind = "init" /\ rets[t] = <<Ret(0)>>
        /\ \E u \in Threads \ {t} : COUNTER[u] # Uninit /\ Stored(u) > 1

\* The last write of thread t stored zero through reset(), or through set(0).
WroteZero(t) ==
    base[t].kind = "reset" \/ (base[t].kind = "set" /\ base[t].val = 0)

\* C11: reset() and set(0) are the same transition: from any state each
\* leads to the stored values the other leads to, and the calls of next()
\* that follow a reset() return what the calls that follow a set(0) return.
C11_SameValues ==
    \A t, u \in Threads :
        (WroteZero(t) /\ WroteZero(u) /\ Len(rets[t]) <= Len(rets[u])) =>
            /\ rets[t] = SubSeq(rets[u], 1, Len(rets[t]))
            /\ Len(rets[t]) = Len(rets[u]) => COUNTER[t] = COUNTER[u]
C11_SameSuccessor ==
    \A t \in Threads :
        /\ reset(t) => COUNTER' = set_cells(COUNTER, t, 0)
        /\ set(t, 0) => COUNTER' = reset_cells(COUNTER, t)
C11_ResetIsSetZero == []C11_SameValues /\ [][C11_SameSuccessor]_vars

\* One thread has called next() twice after a reset(), the other twice
\* after a set(0).
C11_Witness ==
    \E t, u \in Threads :
        /\ base[t].kind = "reset" /\ base[u].kind = "set" /\ base[u].val = 0
        /\ Len(rets[t]) = 2 /\ rets[u] = rets[t]

\* Some operation of thread t on test_basic::Counter.
BasicOp(t) == Op(t) /\ InBasic(t)

\* Some operation of thread t on test_reset::Counter.
OtherOp(t) ==
    other_next(t) \/ (\E n \in SetInputs(ty) : other_set(t, n)) \/ other_reset(t)

\* C13: the counters of two expansions of the macro have disjoint storage:
\* no operation on one of them changes a stored value of the other, on the
\* calling thread or on any other, and the value a thread has stored in one
\* is the one its own operations on that counter left there.
C13_Frame ==
    /\ COUNTER2' = COUNTER2 \/ \A t \in Threads : ~BasicOp(t)
    /\ COUNTER' = COUNTER \/ \A t \in Threads : ~OtherOp(t)
C13_OwnCounter ==
    \A t \in Threads :
        with_get(COUNTER, t) = Alone(base[t].val, Len(rets[t])).cell
C13_DisjointStorage == []C13_OwnCounter /\ [][C13_Frame]_vars

\* A thread holds different values in the two counters, both advanced.
C13_Witness ==
    \E t \in Threads :
        /\ COUNTER[t] # Uninit /\ COUNTER2[t] # Uninit
        /\ Len(rets[t]) >= 2
        /\ COUNTER2[t][1] > Stored(t) /\ Stored(t) > 0

\* C12: a call of next(), set(n) or reset() that thread A has made comes to
\* its end, whatever thread B does: also when B has stopped for ever, inside
\* a call or outside.
C12_CallCompletes == (pending["A"] # "none") ~> (pending["A"] = "none")

\* Thread A has finished calls (a set and two next) while thread B is inside
\* its first call, which it has not finished.
C12_Witness ==
    /\ pending["A"] = "none" /\ base["A"].kind = "set" /\ Len(rets["A"]) = 2
    /\ pending["B"] # "none" /\ COUNTER["B"] = Uninit /\ ~exited
====
